---- MODULE Spec2Model ----
(***************************************************************************)
(* Reading Request Handler (cosmic-compass-secure).                        *)
(*                                                                         *)
(* Two revisions of one serverless handler are modelled:                   *)
(*   "early" : src/netlify/generateReading.js                              *)
(*   "later" : src/netlify/functions/generateReading.js                    *)
(*                                                                         *)
(* The handler is an async function.  It runs synchronously from the       *)
(* invocation to the first await (fetch), then from the settling of fetch  *)
(* to the second await (response.text() or response.json()), then to its   *)
(* return.  Each of these three stretches is one action.                   *)
(*                                                                         *)
(* Strings built by template literals are modelled as sequences of the     *)
(* pieces that are concatenated; a JavaScript undefined is UNDEF, and the  *)
(* empty string is "".                                                     *)
(***************************************************************************)
EXTENDS Integers, Sequences, FiniteSets, TLC

\* Longest list of grounding attributions the upstream answer carries.
MaxSources == 2

UNDEF == "<undefined>"

\* JavaScript truthiness of a string-or-undefined value.
Truthy(s) == s # UNDEF /\ s # ""

\* `${x}` : string conversion inside a template literal.
Interp(s) == IF s = UNDEF THEN "undefined" ELSE s

\* `${x || 'N/A'}`
OrNA(s) == IF Truthy(s) THEN s ELSE "N/A"

(***************************************************************************)
(* Request data.                                                           *)
(***************************************************************************)
NoDetails == [present |-> FALSE, name |-> UNDEF, dob |-> UNDEF, tob |-> UNDEF, city |-> UNDEF]

Details(n, d, t, c) == [present |-> TRUE, name |-> n, dob |-> d, tob |-> t, city |-> c]

\* Birth-detail objects a client may send (absent, complete, incomplete).
DetailValues(tag) ==
    { NoDetails,
      Details(tag, "1990-01-01", "10:30", "Pune"),
      Details(UNDEF, "1990-01-01", "10:30", "Pune"),
      Details(tag, UNDEF, "10:30", "Pune"),
      Details(tag, "1990-01-01", "10:30", "") }

NoNumerology == [present |-> FALSE, name |-> UNDEF, dob |-> UNDEF]

NumerologyValues ==
    { NoNumerology,
      [present |-> TRUE, name |-> "Asha Rao", dob |-> "1990-01-01"],
      [present |-> TRUE, name |-> UNDEF, dob |-> "1990-01-01"],
      [present |-> TRUE, name |-> "Asha Rao", dob |-> ""] }

ReadingTypes == { UNDEF, "", "natal", "matching", "health", "daily_horoscope", "numerology" }

\* The value of a JSON text that is not an object with fields: null, a
\* number, a string, an array.  Property reads on all but null give undefined.
NonObject(k) ==
    [kind |-> k, readingType |-> UNDEF, birthDetails |-> NoDetails,
     birthDetailsPartner1 |-> NoDetails, birthDetailsPartner2 |-> NoDetails,
     userQuery |-> UNDEF, yearInput |-> UNDEF, previousReading |-> UNDEF,
     zodiacSign |-> UNDEF, numerologyDetails |-> NoNumerology]

NonObjectValues == { NonObject(k) : k \in {"null", "number", "string", "array"} }

\* Bodies sent to the early revision (it reads birthDetails).
EarlyObjects ==
    [kind : {"object"}, readingType : ReadingTypes, birthDetails : DetailValues("P"),
     birthDetailsPartner1 : {NoDetails}, birthDetailsPartner2 : {NoDetails},
     userQuery : {UNDEF, "", "career?"}, yearInput : {UNDEF, "2026"},
     previousReading : {UNDEF, "prev"}, zodiacSign : {UNDEF},
     numerologyDetails : {NoNumerology}]

\* Bodies sent to the later revision (it reads birthDetailsPartner1/2,
\* zodiacSign and numerologyDetails).
LaterObjects ==
    [kind : {"object"}, readingType : ReadingTypes, birthDetails : {NoDetails},
     birthDetailsPartner1 : {NoDetails, Details("P1", "1990-01-01", "10:30", "Pune"),
                             Details("P1", UNDEF, "10:30", "Pune")},
     birthDetailsPartner2 : {NoDetails, Details("P2", "1991-02-02", "11:45", "Agra"),
                             Details(UNDEF, "1991-02-02", "11:45", "Agra"),
                             Details("P2", "1991-02-02", UNDEF, "Agra")},
     userQuery : {UNDEF, "", "career?"}, yearInput : {UNDEF, "2026"},
     previousReading : {UNDEF, "prev"}, zodiacSign : {UNDEF, "Aries"},
     numerologyDetails : NumerologyValues]

JsonValues(r) == NonObjectValues \cup (IF r = "early" THEN EarlyObjects ELSE LaterObjects)

\* event.body: undefined, "", a text that is not JSON, or a JSON text
\* together with the value it denotes.
NoBody == [raw |-> "undefined", value |-> NonObject("null")]
EmptyBody == [raw |-> "empty", value |-> NonObject("null")]
MalformedBody == [raw |-> "malformed", value |-> NonObject("null")]
JsonBody(v) == [raw |-> "json", value |-> v]

Bodies(r) == {NoBody, EmptyBody, MalformedBody} \cup { JsonBody(v) : v \in JsonValues(r) }

Methods == {"POST", "GET"}

Revisions == {"early", "later"}

(***************************************************************************)
(* Responses and outcomes of a stretch of the handler.                     *)
(***************************************************************************)
NoResponse == [statusCode |-> 0, keys |-> {}, error |-> <<>>, text |-> UNDEF, sources |-> <<>>]

\* { statusCode, body: JSON.stringify({ error }) }
ErrorResponse(code, msg) ==
    [statusCode |-> code, keys |-> {"error"}, error |-> msg, text |-> UNDEF, sources |-> <<>>]

\* { statusCode: 200, body: JSON.stringify({ text, sources }) }
OkResponse(t, s) ==
    [statusCode |-> 200, keys |-> {"text", "sources"}, error |-> <<>>, text |-> t, sources |-> s]

NoSystem == [tpl |-> "none", year |-> UNDEF, fmt |-> FALSE]
NoPayload == [built |-> FALSE, systemPrompt |-> NoSystem, userPrompt |-> <<>>, tools |-> {}]

Return(r) == [kind |-> "return", response |-> r, payload |-> NoPayload]
Throw == [kind |-> "throw", response |-> NoResponse, payload |-> NoPayload]
Await(p) == [kind |-> "await", response |-> NoResponse, payload |-> p]

MsgConfig == <<"Server configuration error: GEMINI_API_KEY is missing. Please set it as an environment variable in your Netlify settings.">>
MsgMethod == <<"Invalid request method or missing body.">>
MsgJson == <<"Invalid JSON body.">>
MsgReadingType == <<"Invalid request: Missing required readingType.">>
MsgBirth == <<"Invalid request: Missing required birth details (dob, tob, city).">>
MsgPartner2 == <<"Invalid request: Missing required birth details for Partner 2 for matching.">>
MsgNumerology == <<"Invalid request: Missing required name and DOB for numerology.">>
MsgNoContent == <<"AI failed to generate content. This might be due to safety settings.">>
MsgInternal == <<"Internal server error during AI generation.">>
MsgUpstream(errorBody) == <<"Gemini API Error: ", errorBody>>

(***************************************************************************)
(* Prompt pieces.  A prompt is the sequence of the pieces concatenated     *)
(* into it: one instruction piece (the template's prose with the request   *)
(* fields interpolated into it) followed by the chart-data blocks.         *)
(***************************************************************************)
Instr(t, args) == [seg |-> "instr", tpl |-> t, f |-> args]

System(t, y, fr) == [tpl |-> t, year |-> y, fmt |-> fr]

Payload(sys, user) ==
    [built |-> TRUE, systemPrompt |-> sys, userPrompt |-> user, tools |-> {"google_search"}]

\* early revision: const chartString = `\n--- CHART DATA ---\n` + ...
ChartString(b) ==
    << [seg |-> "chart", tpl |-> "none",
        f |-> <<OrNA(b.name), Interp(b.dob), Interp(b.tob), Interp(b.city)>>] >>

\* later revision: let chartStringP1 = ''; if (birthDetailsPartner1) { ... }
ChartStringP1(b) ==
    IF b.present
    THEN << [seg |-> "chartP1", tpl |-> "none",
             f |-> <<OrNA(b.name), Interp(b.dob), Interp(b.tob), Interp(b.city)>>] >>
    ELSE <<>>

\* later revision: chartStringP2 = `\n--- CHART DATA (PARTNER 2) ---\n` + ...
ChartStringP2(b) ==
    << [seg |-> "chartP2", tpl |-> "none",
        f |-> <<OrNA(b.name), Interp(b.dob), Interp(b.tob), Interp(b.city)>>] >>

\* !b || !b.dob || !b.tob || !b.city
MissingDetails(b) ==
    ~b.present \/ ~Truthy(b.dob) \/ ~Truthy(b.tob) \/ ~Truthy(b.city)

\* !numerologyDetails || !numerologyDetails.name || !numerologyDetails.dob
MissingNumerology(n) ==
    ~n.present \/ ~Truthy(n.name) \/ ~Truthy(n.dob)

(***************************************************************************)
(* The templates.  Each gives the system prompt and the instruction part   *)
(* of the user prompt; fr tells whether the formatting rule is appended    *)
(* (later revision only).  The prose is the same in both revisions.        *)
(***************************************************************************)
TemplateMatching(d, fr) ==
    [sys |-> System("matching", UNDEF, fr), instr |-> Instr("matching", <<>>)]

TemplateHealth(d, fr) ==
    [sys |-> System("health", UNDEF, fr), instr |-> Instr("health", <<OrNA(d.userQuery)>>)]

TemplateFollowUp(d, fr) ==
    [sys |-> System("followup", UNDEF, fr),
     instr |-> Instr("followup", <<Interp(d.previousReading), Interp(d.userQuery)>>)]

TemplateAnnual(d, fr) ==
    [sys |-> System("annual", Interp(d.yearInput), fr),
     instr |-> Instr("annual", <<Interp(d.yearInput)>>)]

TemplateDaily(d, fr) ==
    [sys |-> System("daily_horoscope", UNDEF, fr),
     instr |-> Instr("daily_horoscope", <<Interp(d.zodiacSign)>>)]

TemplateNumerology(d, fr) ==
    [sys |-> System("numerology", UNDEF, fr),
     instr |-> Instr("numerology", <<Interp(d.numerologyDetails.name),
                                     Interp(d.numerologyDetails.dob)>>)]

TemplateNatal(d, fr) ==
    [sys |-> System("natal", UNDEF, fr), instr |-> Instr("natal", <<OrNA(d.userQuery)>>)]

\* userPrompt = userPrompt + chart strings; the payload; the fetch.
Send(t, charts) == Await(Payload(t.sys, <<t.instr>> \o charts))

(***************************************************************************)
(* Early revision: the try block up to the fetch.                          *)
(***************************************************************************)
BuildEarly(d) ==
    IF d.readingType = "health"
    THEN Send(TemplateHealth(d, FALSE), ChartString(d.birthDetails))
    ELSE IF Truthy(d.previousReading) /\ Truthy(d.userQuery)
    THEN Send(TemplateFollowUp(d, FALSE), ChartString(d.birthDetails))
    ELSE IF Truthy(d.yearInput)
    THEN Send(TemplateAnnual(d, FALSE), ChartString(d.birthDetails))
    ELSE Send(TemplateNatal(d, FALSE), ChartString(d.birthDetails))

TryEarly(d) ==
    IF d.kind = "null" THEN Throw
    ELSE IF MissingDetails(d.birthDetails) THEN Return(ErrorResponse(400, MsgBirth))
    ELSE BuildEarly(d)

(***************************************************************************)
(* Later revision: the try block up to the fetch.                          *)
(***************************************************************************)
\* BuildLater with the annual-forecast test placed before the follow-up test.
BuildLater_AnnualFirst(d) ==
    LET chartStringP1 == ChartStringP1(d.birthDetailsPartner1) IN
    IF d.readingType = "matching"
    THEN IF MissingDetails(d.birthDetailsPartner2)
         THEN Return(ErrorResponse(400, MsgPartner2))
         ELSE Send(TemplateMatching(d, TRUE),
                   chartStringP1 \o ChartStringP2(d.birthDetailsPartner2))
    ELSE IF d.readingType = "health"
    THEN Send(TemplateHealth(d, TRUE), chartStringP1)
    ELSE IF Truthy(d.yearInput)
    THEN Send(TemplateAnnual(d, TRUE), chartStringP1)
    ELSE IF Truthy(d.previousReading) /\ Truthy(d.userQuery)
    THEN Send(TemplateFollowUp(d, TRUE), chartStringP1)
    ELSE IF d.readingType = "daily_horoscope"
    THEN Send(TemplateDaily(d, TRUE), <<>>)
    ELSE IF d.readingType = "numerology"
    THEN IF MissingNumerology(d.numerologyDetails)
         THEN Return(ErrorResponse(400, MsgNumerology))
         ELSE Send(TemplateNumerology(d, TRUE), <<>>)
    ELSE Send(TemplateNatal(d, TRUE), chartStringP1)

BuildLater(d) ==
    LET chartStringP1 == ChartStringP1(d.birthDetailsPartner1) IN
    IF d.readingType = "matching"
    THEN IF MissingDetails(d.birthDetailsPartner2)
         THEN Return(ErrorResponse(400, MsgPartner2))
         ELSE Send(TemplateMatching(d, TRUE),
                   chartStringP1 \o ChartStringP2(d.birthDetailsPartner2))
    ELSE IF d.readingType = "health"
    THEN Send(TemplateHealth(d, TRUE), chartStringP1)
    ELSE IF Truthy(d.previousReading) /\ Truthy(d.userQuery)
    THEN Send(TemplateFollowUp(d, TRUE), chartStringP1)
    ELSE IF Truthy(d.yearInput)
    THEN Send(TemplateAnnual(d, TRUE), chartStringP1)
    ELSE IF d.readingType = "daily_horoscope"
    THEN Send(TemplateDaily(d, TRUE), <<>>)
    ELSE IF d.readingType = "numerology"
    THEN IF MissingNumerology(d.numerologyDetails)
         THEN Return(ErrorResponse(400, MsgNumerology))
         ELSE Send(TemplateNumerology(d, TRUE), <<>>)
    ELSE Send(TemplateNatal(d, TRUE), chartStringP1)

TryLater(d) ==
    IF d.kind = "null" THEN Throw
    ELSE IF ~Truthy(d.readingType) THEN Return(ErrorResponse(400, MsgReadingType))
    ELSE BuildLater(d)

(***************************************************************************)
(* Both revisions: the checks before the try block, and the catch.         *)
(***************************************************************************)
\* JSON.parse(event.body)
JSONparse(b) == [ok |-> b.raw = "json", value |-> b.value]

\* Catch without the catch block: the exception leaves the handler.
Catch_Rethrow(o) == o

\* } catch (error) { ... return { statusCode: 500, ... } }
Catch(o) == IF o.kind = "throw" THEN Return(ErrorResponse(500, MsgInternal)) ELSE o

\* The handler from its invocation to its first await or return.
StartHandler(r, key, ev) ==
    IF ~key THEN Return(ErrorResponse(500, MsgConfig))
    ELSE IF ev.httpMethod # "POST" \/ ev.body.raw \in {"undefined", "empty"}
    THEN Return(ErrorResponse(400, MsgMethod))
    ELSE IF ~JSONparse(ev.body).ok THEN Return(ErrorResponse(400, MsgJson))
    ELSE Catch(IF r = "early" THEN TryEarly(JSONparse(ev.body).value)
               ELSE TryLater(JSONparse(ev.body).value))

(***************************************************************************)
(* The upstream generation API's answer.                                   *)
(***************************************************************************)
\* candidates?.[0] when there is no such element
NoCandidate ==
    [content |-> "missing", text |-> UNDEF, grounding |-> "missing", attributions |-> <<>>]

\* content: "missing" (no content), "noparts" (content without parts),
\* "emptyparts" (parts: []), "parts" (parts[0] exists; text is its text).
\* grounding: "missing" (no groundingMetadata), "noattr" (metadata without
\* groundingAttributions), "attr" (attributions is the array).
Candidate(c, t, g, a) == [content |-> c, text |-> t, grounding |-> g, attributions |-> a]

SourceLists == UNION { [1..n -> {"s1", "s2"}] : n \in 0..MaxSources }

GoodCandidates ==
    { Candidate("parts", "Your chart shows", "missing", <<>>),
      Candidate("parts", "Your chart shows", "noattr", <<>>) }
    \cup { Candidate("parts", "Your chart shows", "attr", a) : a \in SourceLists }

BadCandidates ==
    { Candidate("missing", UNDEF, "missing", <<>>),
      Candidate("noparts", UNDEF, "missing", <<>>),
      Candidate("emptyparts", UNDEF, "missing", <<>>),
      Candidate("parts", UNDEF, "missing", <<>>),
      Candidate("parts", "", "missing", <<>>),
      Candidate("parts", "", "attr", <<"s1">>) }

NoResult == [kind |-> "none", hasCandidates |-> FALSE, candidates |-> <<>>]

\* Decoded bodies of an upstream success response.
Results ==
    { [kind |-> "null", hasCandidates |-> FALSE, candidates |-> <<>>],
      [kind |-> "object", hasCandidates |-> FALSE, candidates |-> <<>>],
      [kind |-> "object", hasCandidates |-> TRUE, candidates |-> <<>>] }
    \cup { [kind |-> "object", hasCandidates |-> TRUE, candidates |-> <<c>>] :
             c \in GoodCandidates \cup BadCandidates }
    \cup { [kind |-> "object", hasCandidates |-> TRUE, candidates |-> cs] :
             cs \in { << Candidate("parts", "Your chart shows", "attr", <<"s1">>),
                         Candidate("parts", "", "missing", <<>>) >>,
                      << Candidate("missing", UNDEF, "missing", <<>>),
                         Candidate("parts", "Second answer", "attr", <<"s2">>) >> } }

Statuses == {200, 429, 503}

ErrorTexts == {"", "model overloaded"}

\* response.ok
Ok(status) == status >= 200 /\ status <= 299

NoUpstream ==
    [settled |-> FALSE, status |-> 0, read |-> "none", failed |-> FALSE,
     errorBody |-> UNDEF, result |-> NoResult]

(***************************************************************************)
(* The handler after the fetch.                                            *)
(***************************************************************************)
\* RelayError with every upstream failure reported as 500.
RelayError_Fixed500(status, errorBody) == Return(ErrorResponse(500, MsgUpstream(errorBody)))

\* if (!response.ok) { const errorBody = await response.text(); return ... }
RelayError(status, errorBody) == Return(ErrorResponse(status, MsgUpstream(errorBody)))

\* FirstCandidate taking the last candidate instead of the first.
FirstCandidate_Last(result) ==
    IF result.hasCandidates /\ Len(result.candidates) > 0
    THEN result.candidates[Len(result.candidates)]
    ELSE NoCandidate

\* result.candidates?.[0]
FirstCandidate(result) ==
    IF result.hasCandidates /\ Len(result.candidates) > 0
    THEN result.candidates[1]
    ELSE NoCandidate

\* candidate?.content?.parts?.[0]?.text
GeneratedText(c) == IF c.content = "parts" THEN c.text ELSE UNDEF

\* candidate?.groundingMetadata?.groundingAttributions || []
Sources(c) == IF c.grounding = "attr" THEN c.attributions ELSE <<>>

\* Relay testing the text against undefined only, not for truthiness.
Relay_UndefinedOnly(result) ==
    IF result.kind = "null" THEN Throw
    ELSE IF GeneratedText(FirstCandidate(result)) = UNDEF
    THEN Return(ErrorResponse(500, MsgNoContent))
    ELSE Return(OkResponse(GeneratedText(FirstCandidate(result)),
                           Sources(FirstCandidate(result))))

\* From the decoded result to the return.
Relay(result) ==
    IF result.kind = "null" THEN Throw
    ELSE IF ~Truthy(GeneratedText(FirstCandidate(result)))
    THEN Return(ErrorResponse(500, MsgNoContent))
    ELSE Return(OkResponse(GeneratedText(FirstCandidate(result)),
                           Sources(FirstCandidate(result))))

(***************************************************************************)
(* State.                                                                  *)
(***************************************************************************)
VARIABLES
    pc,          \* "idle", "awaitFetch", "awaitText", "awaitJson", "done"
    rev,         \* revision of the handler serving the invocation
    apiKey,      \* GEMINI_API_KEY is set
    event,       \* [httpMethod, body]
    payload,     \* payload handed to fetch, NoPayload before
    calls,       \* calls of fetch made by the invocation
    upstream,    \* what the handler has seen of the upstream answer
    response,    \* the handler's return value, NoResponse before
    propagated   \* an exception left the handler

vars == <<pc, rev, apiKey, event, payload, calls, upstream, response, propagated>>

NoEvent == [httpMethod |-> "GET", body |-> NoBody]

Init ==
    /\ pc = "idle"
    /\ rev = "later"
    /\ apiKey = TRUE
    /\ event = NoEvent
    /\ payload = NoPayload
    /\ calls = 0
    /\ upstream = NoUpstream
    /\ response = NoResponse
    /\ propagated = FALSE

\* Effect of an outcome of a stretch of the handler that follows the fetch.
Finish(o) ==
    /\ pc' = "done"
    /\ response' = o.response
    /\ propagated' = (o.kind = "throw")

\* The platform invokes the handler; it runs to its first await or return.
Invoke(r, key, ev) ==
    /\ pc = "idle"
    /\ rev' = r
    /\ apiKey' = key
    /\ event' = ev
    /\ upstream' = NoUpstream
    /\ LET o == StartHandler(r, key, ev) IN
         /\ payload' = o.payload
         /\ calls' = IF o.kind = "await" THEN 1 ELSE 0
         /\ pc' = IF o.kind = "await" THEN "awaitFetch" ELSE "done"
         /\ response' = o.response
         /\ propagated' = (o.kind = "throw")

\* FetchRejects with the call repeated once after a transport failure.
FetchRejects_Retry ==
    /\ pc = "awaitFetch"
    /\ calls < 2
    /\ calls' = calls + 1
    /\ UNCHANGED <<pc, rev, apiKey, event, payload, upstream, response, propagated>>

\* fetch rejects (transport failure); the catch block returns.
FetchRejects ==
    /\ pc = "awaitFetch"
    /\ upstream' = [upstream EXCEPT !.failed = TRUE]
    /\ Finish(Catch(Throw))
    /\ UNCHANGED <<rev, apiKey, event, payload, calls>>

\* fetch resolves with a response of the given status; the handler calls
\* response.text() or response.json() and awaits it.
FetchResolves(status) ==
    /\ pc = "awaitFetch"
    /\ upstream' = [upstream EXCEPT !.settled = TRUE, !.status = status,
                                    !.read = IF ~Ok(status) THEN "text" ELSE "json"]
    /\ pc' = IF ~Ok(status) THEN "awaitText" ELSE "awaitJson"
    /\ UNCHANGED <<rev, apiKey, event, payload, calls, response, propagated>>

\* response.text() resolves.
TextResolves(errorBody) ==
    /\ pc = "awaitText"
    /\ upstream' = [upstream EXCEPT !.errorBody = errorBody]
    /\ Finish(Catch(RelayError(upstream.status, errorBody)))
    /\ UNCHANGED <<rev, apiKey, event, payload, calls>>

\* response.text() rejects (the body cannot be read).
TextRejects ==
    /\ pc = "awaitText"
    /\ upstream' = [upstream EXCEPT !.failed = TRUE]
    /\ Finish(Catch(Throw))
    /\ UNCHANGED <<rev, apiKey, event, payload, calls>>

\* response.json() resolves with the decoded body.
JsonResolves(result) ==
    /\ pc = "awaitJson"
    /\ upstream' = [upstream EXCEPT !.result = result]
    /\ Finish(Catch(Relay(result)))
    /\ UNCHANGED <<rev, apiKey, event, payload, calls>>

\* response.json() rejects (the body is not JSON, or cannot be read).
JsonRejects ==
    /\ pc = "awaitJson"
    /\ upstream' = [upstream EXCEPT !.failed = TRUE]
    /\ Finish(Catch(Throw))
    /\ UNCHANGED <<rev, apiKey, event, payload, calls>>

Next ==
    \/ /\ pc = "idle"
       /\ \E r \in Revisions, key \in BOOLEAN, m \in Methods :
            \E b \in Bodies(r) : Invoke(r, key, [httpMethod |-> m, body |-> b])
    \/ FetchRejects
    \/ \E status \in Statuses : FetchResolves(status)
    \/ \E errorBody \in ErrorTexts : TextResolves(errorBody)
    \/ TextRejects
    \/ \E result \in Results : JsonResolves(result)
    \/ JsonRejects

Spec == Init /\ [][Next]_vars

\* The upstream and the runtime settle every pending await.
FairSpec == Spec /\ WF_vars(FetchRejects \/ \E status \in Statuses : FetchResolves(status))
                 /\ WF_vars(TextRejects \/ \E errorBody \in ErrorTexts : TextResolves(errorBody))
                 /\ WF_vars(JsonRejects \/ \E result \in Results : JsonResolves(result))

TypeOK ==
    /\ pc \in {"idle", "awaitFetch", "awaitText", "awaitJson", "done"}
    /\ rev \in Revisions
    /\ apiKey \in BOOLEAN
    /\ calls \in 0..2
    /\ propagated \in BOOLEAN

(***************************************************************************)
(* Properties.                                                             *)
(***************************************************************************)
\* The parsed request body of the current invocation.
Data == event.body.value

\* The request got past the credential, method/body and JSON checks.
Parsed == pc # "idle" /\ apiKey /\ event.httpMethod = "POST" /\ event.body.raw = "json"

\* The current invocation has returned.
Done == pc = "done"

\* The chart-data blocks of a user prompt.
ChartBlocks(user) == { i \in 1..Len(user) : user[i].seg \in {"chart", "chartP1", "chartP2"} }

\* The type-specific field set the reading type requires is incomplete.
LacksRequired(d) ==
    \/ d.readingType = "matching"
         /\ (MissingDetails(d.birthDetailsPartner1) \/ MissingDetails(d.birthDetailsPartner2))
    \/ d.readingType = "natal" /\ MissingDetails(d.birthDetailsPartner1)
    \/ d.readingType = "daily_horoscope" /\ ~Truthy(d.zodiacSign)
    \/ d.readingType = "numerology" /\ MissingNumerology(d.numerologyDetails)

\* C1: in the later revision a request with a credential, method POST, a
\* parseable JSON body and a readingType that lacks a required type-specific
\* field is answered with 400 and the upstream API is never called.
C1_MissingFieldRejected ==
    (Parsed /\ rev = "later" /\ Truthy(Data.readingType) /\ LacksRequired(Data))
        => (calls = 0 /\ ~payload.built /\ (Done => response.statusCode = 400))

\* The templates in their order of precedence, each with its predicate.
Precedence(r, d) ==
    IF r = "later"
    THEN << <<"matching", d.readingType = "matching">>,
            <<"health", d.readingType = "health">>,
            <<"followup", Truthy(d.previousReading) /\ Truthy(d.userQuery)>>,
            <<"annual", Truthy(d.yearInput)>>,
            <<"daily_horoscope", d.readingType = "daily_horoscope">>,
            <<"numerology", d.readingType = "numerology">>,
            <<"natal", TRUE>> >>
    ELSE << <<"health", d.readingType = "health">>,
            <<"followup", Truthy(d.previousReading) /\ Truthy(d.userQuery)>>,
            <<"annual", Truthy(d.yearInput)>>,
            <<"natal", TRUE>> >>

\* The first template of the order whose predicate holds.
FirstHolding(order) ==
    order[CHOOSE i \in 1..Len(order) : order[i][2] /\ \A j \in 1..(i - 1) : ~order[j][2]][1]

\* C2: for every request that passes validation exactly one template is
\* selected, the first of the fixed order whose predicate holds; the system
\* prompt and the instruction part of the user prompt both come from it.
C2_OneTemplateByPrecedence ==
    payload.built =>
        /\ payload.systemPrompt.tpl = FirstHolding(Precedence(rev, Data))
        /\ Len(payload.userPrompt) >= 1
        /\ payload.userPrompt[1].seg = "instr"
        /\ payload.userPrompt[1].tpl = FirstHolding(Precedence(rev, Data))
        /\ \A i \in 2..Len(payload.userPrompt) : payload.userPrompt[i].seg # "instr"

\* A follow-up request whose readingType names another template of lower
\* precedence got the follow-up template.
C2_Witness ==
    /\ payload.built /\ rev = "later"
    /\ Data.readingType \in {"natal", "daily_horoscope"}
    /\ Truthy(Data.previousReading) /\ Truthy(Data.userQuery) /\ Truthy(Data.yearInput)
    /\ payload.systemPrompt.tpl = "followup"
    /\ payload.userPrompt[1].tpl = "followup"

\* No prompt was built and the upstream API was not called.
Untouched == ~payload.built /\ calls = 0 /\ ~upstream.settled /\ Done

\* C3: the validation steps are ordered and short-circuiting: no credential
\* gives 500; else a method other than POST or an empty body gives 400; else
\* a body that is not JSON gives 400; else (later revision) an absent
\* readingType gives 400; the first failing step answers, no prompt is built
\* and the upstream API is not called.
C3_ValidationOrder ==
    pc # "idle" =>
        /\ ~apiKey => (response = ErrorResponse(500, MsgConfig) /\ Untouched)
        /\ (apiKey /\ (event.httpMethod # "POST" \/ event.body.raw \in {"undefined", "empty"}))
              => (response = ErrorResponse(400, MsgMethod) /\ Untouched)
        /\ (apiKey /\ event.httpMethod = "POST" /\ event.body.raw = "malformed")
              => (response = ErrorResponse(400, MsgJson) /\ Untouched)
        /\ (Parsed /\ rev = "later" /\ ~Truthy(Data.readingType))
              => (response = ErrorResponse(400, MsgReadingType) /\ Untouched)

\* The upstream API answered with a non-success status.
UpstreamFailed == upstream.settled /\ ~Ok(upstream.status)

\* C4 as stated: whenever the upstream API answers with a non-success status
\* s the handler returns status s, with the upstream error text in its error
\* body, without a retry and without reading candidates.
C4_UpstreamStatusMirrored ==
    (Done /\ UpstreamFailed) =>
        /\ response.statusCode = upstream.status
        /\ calls = 1
        /\ upstream.read = "text"

\* C4 as amended: when the upstream API answers with a non-success status s
\* and its body text is read, the handler returns status s and an error body
\* that ends with that text unmodified; when reading the body fails it
\* returns the catch-all 500.  In both cases there is one call and the
\* response is never decoded as JSON.
C4_UpstreamStatusMirroredWhenRead ==
    (Done /\ UpstreamFailed) =>
        /\ calls = 1
        /\ upstream.read = "text"
        /\ upstream.result = NoResult
        /\ IF upstream.failed
           THEN response = ErrorResponse(500, MsgInternal)
           ELSE /\ response.statusCode = upstream.status
                /\ response.keys = {"error"}
                /\ response.error[Len(response.error)] = upstream.errorBody

C4_Witness ==
    /\ Done /\ UpstreamFailed /\ ~upstream.failed
    /\ upstream.status = 503 /\ upstream.errorBody = "model overloaded"
    /\ response.statusCode = 503
    /\ response.error = <<"Gemini API Error: ", "model overloaded">>

\* The upstream API answered with a success status and a decoded body.
UpstreamDecoded == upstream.settled /\ Ok(upstream.status) /\ upstream.result.kind = "object"

\* The decoded body's first candidate carries a non-empty text.
HasText(result) ==
    /\ result.hasCandidates
    /\ Len(result.candidates) >= 1
    /\ result.candidates[1].content = "parts"
    /\ result.candidates[1].text \notin {UNDEF, ""}

\* C5: the handler returns 200 if and only if the upstream API answered with
\* a success status and its first candidate carries a non-empty text; then
\* text is that text and sources are the candidate's grounding attributions
\* in their order, or the empty list when it has none.
C5_SuccessRelay ==
    Done =>
        /\ response.statusCode = 200 <=> (UpstreamDecoded /\ HasText(upstream.result))
        /\ response.statusCode = 200 =>
              /\ response.keys = {"text", "sources"}
              /\ response.text = upstream.result.candidates[1].text
              /\ response.sources =
                    IF upstream.result.candidates[1].grounding = "attr"
                    THEN upstream.result.candidates[1].attributions
                    ELSE <<>>

\* A valid natal request answered with a text and two ordered attributions.
C5_Witness ==
    /\ Done /\ Data.readingType = "natal" /\ ~MissingDetails(Data.birthDetailsPartner1)
    /\ response.statusCode = 200
    /\ response.text = "Your chart shows"
    /\ Len(response.sources) >= 2
    /\ response.sources[1] = "s2" /\ response.sources[2] = "s1"

C7_DailyHasNoChart ==
    (payload.built /\ rev = "later" /\ Data.readingType = "daily_horoscope"
       /\ Truthy(Data.zodiacSign))
        => ChartBlocks(payload.userPrompt) = {}

\* C8 as stated: every invocation makes exactly one upstream call.
C8_ExactlyOneCall == Done => calls = 1

\* The response is one the handler gives before it reaches the fetch.
RejectedBeforeCall ==
    \/ response.error \in {MsgConfig, MsgMethod, MsgJson, MsgReadingType, MsgBirth,
                           MsgPartner2, MsgNumerology}
    \/ response.error = MsgInternal /\ event.body.raw = "json" /\ Data.kind = "null"

\* C8 as amended: every invocation makes at most one upstream call: none
\* when it is answered before the fetch (configuration error, validation
\* error, or the catch-all error for a body that is the JSON null), and
\* exactly one in every other case.
C8_AtMostOneCall ==
    /\ calls \in {0, 1}
    /\ Done => (calls = 0 <=> RejectedBeforeCall)
    /\ Done => (calls = 1 <=> payload.built)

\* The fetch failed and was not repeated.
C8_Witness == Done /\ calls = 1 /\ upstream.failed /\ ~upstream.settled

\* A response of the form { error: string } or { text, sources }.
WellFormed(r) ==
    IF r.statusCode = 200
    THEN r.keys = {"text", "sources"} /\ Truthy(r.text)
    ELSE r.statusCode >= 400 /\ r.keys = {"error"} /\ Len(r.error) >= 1

\* No exception has left the handler; a returned response is well formed;
\* a failed fetch or body read gave the catch-all 500 after one call.
C9_Returned ==
    /\ ~propagated
    /\ ~Done => response = NoResponse
    /\ Done => WellFormed(response)
    /\ (Done /\ upstream.failed) => (response = ErrorResponse(500, MsgInternal) /\ calls = 1)

\* C9: every invocation ends by returning one response with a status code
\* and a JSON body and never by propagating an exception; a failed fetch or
\* an undecodable success body gives the catch-all 500 without a retry, and
\* every failure response has the form { error: string }.
C9_AlwaysOneResponse == [](C9_Returned) /\ ((pc # "idle") ~> Done)

\* The success body could not be decoded.
C9_Witness ==
    /\ Done /\ upstream.settled /\ Ok(upstream.status) /\ upstream.failed
    /\ response = ErrorResponse(500, MsgInternal)

\* C10: a body that is valid JSON but not an object, the literal null
\* included, is rejected with 400, never 500, in both revisions, and the
\* upstream API is not called.
C10_NonObjectRejected ==
    (Parsed /\ Data.kind # "object")
        => (Done /\ response.statusCode = 400 /\ calls = 0)

====
